---- MODULE Spec2Model ----
(***************************************************************************)
(* Model of the Core-Sky check-in bot: the scheduler state of botLogic.js, *)
(* the check-in cycle coroutine, the credential gate of auth.js, the reply *)
(* classification of apiClient.js and the events published on the shared   *)
(* emitter.  One action is one event-loop callback: a handler runs from    *)
(* its entry to its next `await` (or its return) without interleaving.     *)
(***************************************************************************)
EXTENDS Integers, Sequences, FiniteSets, TLC

\* ---------------------------------------------------------------- constants
CHECK_INTERVAL_MS == 24 * 60 * 60 * 1000
DELAY_BETWEEN_ACCOUNTS_MS == 3000
\* JavaScript null for checkIntervalId and nextRunTimestamp
NULL == -1
\* account field of a log line that names no account
NoAccount == NULL

\* ------------------------------------------------------------------- bounds
\* lines of wallet.txt
MaxLines == 2
\* check-in cycles begun in one process run
MaxCycles == 3
\* seconds of exp claims and of clock readings at which the gate is evaluated
GateMaxSec == 2
\* listeners registered for one event
MaxSubscribers == 5
\* credentials the dashboard is told about
MaxDetails == 2

\* exp claims (seconds): one that expires exactly one inter-account delay
\* after start, one far beyond the horizon of the model
BoundaryExp == DELAY_BETWEEN_ACCOUNTS_MS \div 1000
FarExp == 10 * (CHECK_INTERVAL_MS \div 1000)

\* ------------------------------------------------------------------- inputs
\* a credential line: kind is what jwt.decode makes of it
Tokens ==
  { [kind |-> "jwt", exp |-> BoundaryExp],
    [kind |-> "jwt", exp |-> FarExp],
    [kind |-> "malformed", exp |-> 0] }

\* a line of wallet.txt after trim(): a credential, an empty line, a comment
FileLines == Tokens \cup { [kind |-> "blank", exp |-> 0], [kind |-> "comment", exp |-> 0] }

\* wallet.txt: missing, unreadable, or a sequence of lines
Files ==
  { [status |-> st, lines |-> ls] :
      st \in {"missing", "unreadable", "ok"},
      ls \in UNION { [1..n -> FileLines] : n \in 0..MaxLines } }

\* what axios.post resolves or rejects with
Replies ==
  { [kind |-> "reject", code |-> 0, rewardPoint |-> 0],
    [kind |-> "nodata", code |-> 0, rewardPoint |-> 0],
    [kind |-> "data", code |-> 200, rewardPoint |-> 10],
    [kind |-> "data", code |-> 200, rewardPoint |-> 0],
    [kind |-> "data", code |-> 500, rewardPoint |-> 10],
    [kind |-> "data", code |-> 200, rewardPoint |-> NULL] }

\* no reply: the last callback did not resume performSign
NoReply == [kind |-> "none", code |-> 0, rewardPoint |-> 0]

\* loadApiKeys has not been called on its own
NoLoad == [file |-> [status |-> "none", lines |-> << >>], keys |-> << >>,
           raised |-> FALSE]

\* nothing has been emitted on a bus of its own
NoEmit == [subscribers |-> << >>, called |-> << >>, propagated |-> FALSE,
           returned |-> FALSE]

\* no direct evaluation of the gate has taken place
NoGate == [token |-> [kind |-> "none", exp |-> 0], index |-> NULL,
           ret |-> FALSE, threw |-> FALSE]

\* ------------------------------------------------------------------- events
Log(level, msg, account) ==
  [type |-> "log", level |-> level, msg |-> msg, account |-> account]

CheckinResult(index, success, message, reward, isDuplicate) ==
  [type |-> "checkinResult", index |-> index, success |-> success,
   message |-> message, reward |-> reward, isDuplicate |-> isDuplicate]

\* cur is not part of the payload: it records the scheduler's variables at
\* the moment of emission
StatusUpdate(tokensLoaded, nrt, status, cur) ==
  [type |-> "statusUpdate", tokensLoaded |-> tokensLoaded,
   nextRunTimestamp |-> nrt, botStatus |-> status, cur |-> cur]

RECURSIVE SelectSeqIdx(_, _)
\* the checkinResult indices of an event sequence, in order
SelectSeqIdx(evs, k) ==
  IF k > Len(evs) THEN << >>
  ELSE IF evs[k].type = "checkinResult"
       THEN << evs[k].index >> \o SelectSeqIdx(evs, k + 1)
       ELSE SelectSeqIdx(evs, k + 1)

VARIABLES
  botStatus,         \* botLogic.js: botStatus
  nextRunTimestamp,  \* botLogic.js: nextRunTimestamp
  checkIntervalId,   \* botLogic.js: checkIntervalId (NULL or a timer id)
  loadedTokens,      \* botLogic.js: loadedTokens
  timers,            \* the runtime's pending setTimeout timers of the scheduler
  timerSeq,          \* number of timers created so far (the next id is timerSeq + 1)
  cycles,            \* runCheckInCycle invocations suspended at an await
  now,               \* Date.now()
  emitted,           \* events published by the last callback, in order
  statusTrace,       \* values botStatus took during the last callback
  started,           \* index.js has called startBot
  lastOp,            \* the last callback
  cyclesStarted,     \* number of runCheckInCycle invocations so far
  lastDone,          \* bookkeeping of the cycle that returned last
  finished,          \* number of cycles that returned in the last callback
  aborted,           \* a cycle ended by an exception
  stopDuringCycle,   \* stopBot was called while a cycle was suspended
  stopRun,           \* consecutive stopBot calls (capped at 2)
  announced,         \* nextRunTimestamp of the last WAITING statusUpdate
  stopDuringDelay,   \* stopBot was called while the latest cycle awaited its delay
  lastReply,         \* what axios.post settled with in the last callback
  exited,            \* process.exit has been called
  exitCode,          \* the exit status (NULL while the process runs)
  gate,              \* the last direct evaluation of the credential gate
  loader,            \* the last direct call of loadApiKeys
  bus,               \* the last direct emit on the shared emitter
  currentStatus,     \* ui.js: currentStatus
  loadedTokenDetails,   \* ui.js: loadedTokenDetails
  statusUpdateInterval, \* ui.js: statusUpdateInterval (NULL or an interval id)
  intervals,         \* the runtime's live setInterval timers of the dashboard
  replica,           \* a second projection, fed the same events
  listeners,         \* events.js: the shared emitter's handlers, per event name
  immediate,         \* index.js: the setImmediate callback that calls startBot
  delivered          \* events the dashboard's handlers ran on in the last callback

vars == << botStatus, nextRunTimestamp, checkIntervalId, loadedTokens, timers,
           timerSeq, cycles, now, emitted, statusTrace, started, lastOp,
           cyclesStarted, lastDone, finished, aborted, stopDuringCycle,
           stopRun, announced, stopDuringDelay, lastReply, exited, exitCode,
           gate, loader, bus, currentStatus, loadedTokenDetails,
           statusUpdateInterval, intervals, replica, listeners, immediate,
           delivered >>

\* the variables of the scheduler, its cycles and the process
schedVars == << botStatus, nextRunTimestamp, checkIntervalId, loadedTokens,
               timers, timerSeq, cycles, now, statusTrace, started,
               cyclesStarted, lastDone, finished, aborted, stopDuringCycle,
               stopRun, announced, stopDuringDelay, lastReply, exited,
               exitCode, listeners, immediate, delivered >>

\* the dashboard's variables
uiVars == << currentStatus, loadedTokenDetails, statusUpdateInterval, intervals,
             replica >>

\* --------------------------------------------------- scheduler (botLogic.js)
\* the scheduler's variables as one value, threaded through a callback
Sched ==
  [botStatus |-> botStatus, nextRunTimestamp |-> nextRunTimestamp,
   checkIntervalId |-> checkIntervalId, loadedTokens |-> loadedTokens,
   timers |-> timers, timerSeq |-> timerSeq,
   emitted |-> << >>, statusTrace |-> << botStatus >>]

Emit(s, e) == [s EXCEPT !.emitted = Append(@, e)]

EmitAll(s, es) == [s EXCEPT !.emitted = @ \o es]

Snapshot(s) ==
  [botStatus |-> s.botStatus, tokensLoaded |-> Len(s.loadedTokens),
   nextRunTimestamp |-> s.nextRunTimestamp]

UpdateBotStatus_EmitFirst(s, newStatus) ==
  LET s1 == Emit(s, StatusUpdate(Len(s.loadedTokens), s.nextRunTimestamp,
                                 s.botStatus, Snapshot(s)))
      s2 == [s1 EXCEPT !.botStatus = newStatus,
                       !.statusTrace = Append(@, newStatus)]
  IN  Emit(s2, Log("info", "Bot status changed", NoAccount))

UpdateBotStatus(s, newStatus) ==
  LET s1 == [s EXCEPT !.botStatus = newStatus,
                      !.statusTrace = Append(@, newStatus)]
      s2 == Emit(s1, StatusUpdate(Len(s1.loadedTokens), s1.nextRunTimestamp,
                                  s1.botStatus, Snapshot(s1)))
  IN  Emit(s2, Log("info", "Bot status changed", NoAccount))

\* clearTimeout: a no-op on null and on a timer that has already fired
ClearTimeout(ts, id) == { t \in ts : t.id # id }

\* a one-shot timer leaves the pending set when it fires
FireTimer_Repeating(ts, id) == ts

FireTimer(ts, id) == { t \in ts : t.id # id }

ScheduleNextRun_ClearLast(s, t) ==
  LET s2 == [s EXCEPT !.nextRunTimestamp = t + CHECK_INTERVAL_MS]
      s3 == UpdateBotStatus(s2, "WAITING")
      s4 == Emit(s3, Log("wait", "Scheduling next check-in cycle", NoAccount))
      id == s4.timerSeq + 1
  IN  [s4 EXCEPT !.timers = ClearTimeout(@ \cup { [id |-> id, due |-> t + CHECK_INTERVAL_MS] }, id),
                 !.checkIntervalId = id, !.timerSeq = id]

ScheduleNextRun_ShortTimer(s, t) ==
  LET s1 == [s EXCEPT !.timers = ClearTimeout(@, s.checkIntervalId)]
      s2 == [s1 EXCEPT !.nextRunTimestamp = t + CHECK_INTERVAL_MS]
      s3 == UpdateBotStatus(s2, "WAITING")
      s4 == Emit(s3, Log("wait", "Scheduling next check-in cycle", NoAccount))
      id == s4.timerSeq + 1
  IN  [s4 EXCEPT !.timers = @ \cup { [id |-> id, due |-> t + DELAY_BETWEEN_ACCOUNTS_MS] },
                 !.checkIntervalId = id, !.timerSeq = id]

ScheduleNextRun_NoTimer(s, t) ==
  LET s1 == [s EXCEPT !.timers = ClearTimeout(@, s.checkIntervalId)]
      s2 == [s1 EXCEPT !.nextRunTimestamp = t + CHECK_INTERVAL_MS]
      s3 == UpdateBotStatus(s2, "WAITING")
      s4 == Emit(s3, Log("wait", "Scheduling next check-in cycle", NoAccount))
      id == s4.timerSeq + 1
  IN  [s4 EXCEPT !.checkIntervalId = id, !.timerSeq = id]

ScheduleNextRun(s, t) ==
  LET s1 == [s EXCEPT !.timers = ClearTimeout(@, s.checkIntervalId)]
      s2 == [s1 EXCEPT !.nextRunTimestamp = t + CHECK_INTERVAL_MS]
      s3 == UpdateBotStatus(s2, "WAITING")
      s4 == Emit(s3, Log("wait", "Scheduling next check-in cycle", NoAccount))
      id == s4.timerSeq + 1
  IN  [s4 EXCEPT !.timers = @ \cup { [id |-> id, due |-> t + CHECK_INTERVAL_MS] },
                 !.checkIntervalId = id, !.timerSeq = id]

StopBot_NoClear(s) ==
  LET s1 == IF s.checkIntervalId # NULL
            THEN Emit([s EXCEPT !.checkIntervalId = NULL],
                      Log("info", "Bot scheduling stopped", NoAccount))
            ELSE s
      s2 == [s1 EXCEPT !.nextRunTimestamp = NULL]
  IN  UpdateBotStatus(s2, "IDLE")

StopBot_KeepsNextRun(s) ==
  LET s1 == IF s.checkIntervalId # NULL
            THEN Emit([s EXCEPT !.timers = ClearTimeout(@, s.checkIntervalId),
                                !.checkIntervalId = NULL],
                      Log("info", "Bot scheduling stopped", NoAccount))
            ELSE s
  IN  UpdateBotStatus(s1, "IDLE")

StopBot_ClearsTokens(s) ==
  LET s1 == IF s.checkIntervalId # NULL
            THEN Emit([s EXCEPT !.timers = ClearTimeout(@, s.checkIntervalId),
                                !.checkIntervalId = NULL],
                      Log("info", "Bot scheduling stopped", NoAccount))
            ELSE s
      s2 == [s1 EXCEPT !.nextRunTimestamp = NULL, !.loadedTokens = << >>]
  IN  UpdateBotStatus(s2, "IDLE")

StopBot(s) ==
  LET s1 == IF s.checkIntervalId # NULL
            THEN Emit([s EXCEPT !.timers = ClearTimeout(@, s.checkIntervalId),
                                !.checkIntervalId = NULL],
                      Log("info", "Bot scheduling stopped", NoAccount))
            ELSE s
      s2 == [s1 EXCEPT !.nextRunTimestamp = NULL]
  IN  UpdateBotStatus(s2, "IDLE")

\* ------------------------------------------------ loader (tokenLoader.js)
IsKeyLine(l) == l.kind \notin {"blank", "comment"}

LoadApiKeys_NoCatch(file) ==
  IF file.status = "missing"
  THEN [threw |-> FALSE, keys |-> << >>, logs |-> << Log("error", "Wallet file not found", NoAccount) >>]
  ELSE IF file.status = "unreadable"
  THEN [threw |-> TRUE, keys |-> << >>, logs |-> << >>]
  ELSE LET apiKeys == SelectSeq(file.lines, IsKeyLine)
       IN  IF Len(apiKeys) = 0
           THEN [threw |-> FALSE, keys |-> apiKeys, logs |-> << Log("warn", "No valid API keys found", NoAccount) >>]
           ELSE [threw |-> FALSE, keys |-> apiKeys, logs |-> << Log("info", "Loaded API key(s)", NoAccount) >>]

\* loadApiKeys: the result and the log events it publishes
LoadApiKeys(file) ==
  IF file.status = "missing"
  THEN [threw |-> FALSE, keys |-> << >>, logs |-> << Log("error", "Wallet file not found", NoAccount) >>]
  ELSE IF file.status = "unreadable"
  THEN [threw |-> FALSE, keys |-> << >>, logs |-> << Log("error", "Failed to load API keys", NoAccount) >>]
  ELSE LET apiKeys == SelectSeq(file.lines, IsKeyLine)
       IN  IF Len(apiKeys) = 0
           THEN [threw |-> FALSE, keys |-> apiKeys, logs |-> << Log("warn", "No valid API keys found", NoAccount) >>]
           ELSE [threw |-> FALSE, keys |-> apiKeys, logs |-> << Log("info", "Loaded API key(s)", NoAccount) >>]

\* ------------------------------------------------------- gate (auth.js)
IsTokenExpiredOrInvalid_Exclusive(token, accountIndex, t) ==
  IF token.kind = "blank"
  THEN [ret |-> TRUE, threw |-> FALSE,
        logs |-> << Log("warn", "Provided token is empty", accountIndex) >>]
  ELSE IF token.kind = "throws"
  THEN [ret |-> TRUE, threw |-> FALSE,
        logs |-> << Log("error", "Failed to decode token", accountIndex) >>]
  ELSE IF token.kind = "jwt"
  THEN LET expirationTime == token.exp * 1000
           isExpired == t > expirationTime
       IN  [ret |-> isExpired, threw |-> FALSE,
            logs |-> IF isExpired
                     THEN << Log("warn", "Token is expired", accountIndex) >>
                     ELSE << >>]
  ELSE [ret |-> TRUE, threw |-> FALSE,
        logs |-> << Log("warn", "Token lacks valid exp claim", accountIndex) >>]

IsTokenExpiredOrInvalid_NoCatch(token, accountIndex, t) ==
  IF token.kind = "blank"
  THEN [ret |-> TRUE, threw |-> FALSE,
        logs |-> << Log("warn", "Provided token is empty", accountIndex) >>]
  ELSE IF token.kind = "throws"
  THEN [ret |-> FALSE, threw |-> TRUE, logs |-> << >>]
  ELSE IF token.kind = "jwt"
  THEN LET expirationTime == token.exp * 1000
           isExpired == t >= expirationTime
       IN  [ret |-> isExpired, threw |-> FALSE,
            logs |-> IF isExpired
                     THEN << Log("warn", "Token is expired", accountIndex) >>
                     ELSE << >>]
  ELSE [ret |-> TRUE, threw |-> FALSE,
        logs |-> << Log("warn", "Token lacks valid exp claim", accountIndex) >>]

\* isTokenExpiredOrInvalid at time t: the returned flag, whether it raised,
\* and the log events.  token.kind is what the token is to jwt.decode: "blank"
\* the empty string, "throws" a token whose decoding raises, "jwt" a token with
\* a numeric exp, anything else a token decoded to null or without numeric exp
IsTokenExpiredOrInvalid(token, accountIndex, t) ==
  IF token.kind = "blank"
  THEN [ret |-> TRUE, threw |-> FALSE,
        logs |-> << Log("warn", "Provided token is empty", accountIndex) >>]
  ELSE IF token.kind = "throws"
  THEN [ret |-> TRUE, threw |-> FALSE,
        logs |-> << Log("error", "Failed to decode token", accountIndex) >>]
  ELSE IF token.kind = "jwt"
  THEN LET expirationTime == token.exp * 1000
           isExpired == t >= expirationTime
       IN  [ret |-> isExpired, threw |-> FALSE,
            logs |-> IF isExpired
                     THEN << Log("warn", "Token is expired", accountIndex) >>
                     ELSE << >>]
  ELSE [ret |-> TRUE, threw |-> FALSE,
        logs |-> << Log("warn", "Token lacks valid exp claim", accountIndex) >>]

\* ------------------------------------------------ remote call (apiClient.js)
Outcome(success, message, reward, isDuplicate) ==
  [success |-> success, message |-> message, reward |-> reward,
   isDuplicate |-> isDuplicate]

PerformSign_Rethrow(token, accountIndex, reply) ==
  IF reply.kind = "reject"
  THEN [threw |-> TRUE,
        logs |-> << Log("error", "Network or request error", accountIndex) >>,
        result |-> Outcome(FALSE, "Request Error", 0, FALSE)]
  ELSE IF reply.kind = "nodata"
  THEN [threw |-> FALSE,
        logs |-> << Log("error", "Unexpected response structure", accountIndex) >>,
        result |-> Outcome(FALSE, "Unexpected API response format", 0, FALSE)]
  ELSE IF reply.code = 200
  THEN LET rewardPoints == IF reply.rewardPoint = NULL THEN 0 ELSE reply.rewardPoint
       IN  IF rewardPoints > 0
           THEN [threw |-> FALSE,
                 logs |-> << Log("success", "Sign-in successful", accountIndex) >>,
                 result |-> Outcome(TRUE, "+points", rewardPoints, FALSE)]
           ELSE [threw |-> FALSE,
                 logs |-> << Log("warn", "Already checked in today", accountIndex) >>,
                 result |-> Outcome(TRUE, "Already checked in", 0, TRUE)]
  ELSE [threw |-> FALSE,
        logs |-> << Log("error", "Sign-in failed", accountIndex) >>,
        result |-> Outcome(FALSE, "API Error", 0, FALSE)]

PerformSign_ZeroRewardSuccess(token, accountIndex, reply) ==
  IF reply.kind = "reject"
  THEN [threw |-> FALSE,
        logs |-> << Log("error", "Network or request error", accountIndex) >>,
        result |-> Outcome(FALSE, "Request Error", 0, FALSE)]
  ELSE IF reply.kind = "nodata"
  THEN [threw |-> FALSE,
        logs |-> << Log("error", "Unexpected response structure", accountIndex) >>,
        result |-> Outcome(FALSE, "Unexpected API response format", 0, FALSE)]
  ELSE IF reply.code = 200
  THEN LET rewardPoints == IF reply.rewardPoint = NULL THEN 0 ELSE reply.rewardPoint
       IN  IF rewardPoints >= 0
           THEN [threw |-> FALSE,
                 logs |-> << Log("success", "Sign-in successful", accountIndex) >>,
                 result |-> Outcome(TRUE, "+points", rewardPoints, FALSE)]
           ELSE [threw |-> FALSE,
                 logs |-> << Log("warn", "Already checked in today", accountIndex) >>,
                 result |-> Outcome(TRUE, "Already checked in", 0, TRUE)]
  ELSE [threw |-> FALSE,
        logs |-> << Log("error", "Sign-in failed", accountIndex) >>,
        result |-> Outcome(FALSE, "API Error", 0, FALSE)]

PerformSign_FailureKeepsReward(token, accountIndex, reply) ==
  IF reply.kind = "reject"
  THEN [threw |-> FALSE,
        logs |-> << Log("error", "Network or request error", accountIndex) >>,
        result |-> Outcome(FALSE, "Request Error", 0, FALSE)]
  ELSE IF reply.kind = "nodata"
  THEN [threw |-> FALSE,
        logs |-> << Log("error", "Unexpected response structure", accountIndex) >>,
        result |-> Outcome(FALSE, "Unexpected API response format", 0, FALSE)]
  ELSE IF reply.code = 200
  THEN LET rewardPoints == IF reply.rewardPoint = NULL THEN 0 ELSE reply.rewardPoint
       IN  IF rewardPoints > 0
           THEN [threw |-> FALSE,
                 logs |-> << Log("success", "Sign-in successful", accountIndex) >>,
                 result |-> Outcome(TRUE, "+points", rewardPoints, FALSE)]
           ELSE [threw |-> FALSE,
                 logs |-> << Log("warn", "Already checked in today", accountIndex) >>,
                 result |-> Outcome(TRUE, "Already checked in", 0, TRUE)]
  ELSE [threw |-> FALSE,
        logs |-> << Log("error", "Sign-in failed", accountIndex) >>,
        result |-> Outcome(FALSE, "API Error", reply.rewardPoint, FALSE)]

PerformSign_FailureWarns(token, accountIndex, reply) ==
  IF reply.kind = "reject"
  THEN [threw |-> FALSE,
        logs |-> << Log("error", "Network or request error", accountIndex) >>,
        result |-> Outcome(FALSE, "Request Error", 0, FALSE)]
  ELSE IF reply.kind = "nodata"
  THEN [threw |-> FALSE,
        logs |-> << Log("error", "Unexpected response structure", accountIndex) >>,
        result |-> Outcome(FALSE, "Unexpected API response format", 0, FALSE)]
  ELSE IF reply.code = 200
  THEN LET rewardPoints == IF reply.rewardPoint = NULL THEN 0 ELSE reply.rewardPoint
       IN  IF rewardPoints > 0
           THEN [threw |-> FALSE,
                 logs |-> << Log("success", "Sign-in successful", accountIndex) >>,
                 result |-> Outcome(TRUE, "+points", rewardPoints, FALSE)]
           ELSE [threw |-> FALSE,
                 logs |-> << Log("warn", "Already checked in today", accountIndex) >>,
                 result |-> Outcome(TRUE, "Already checked in", 0, TRUE)]
  ELSE [threw |-> FALSE,
        logs |-> << Log("warn", "Sign-in failed", accountIndex) >>,
        result |-> Outcome(FALSE, "API Error", 0, FALSE)]

\* performSign from the resumption of `await axios.post` to its return
PerformSign(token, accountIndex, reply) ==
  IF reply.kind = "reject"
  THEN [threw |-> FALSE,
        logs |-> << Log("error", "Network or request error", accountIndex) >>,
        result |-> Outcome(FALSE, "Request Error", 0, FALSE)]
  ELSE IF reply.kind = "nodata"
  THEN [threw |-> FALSE,
        logs |-> << Log("error", "Unexpected response structure", accountIndex) >>,
        result |-> Outcome(FALSE, "Unexpected API response format", 0, FALSE)]
  ELSE IF reply.code = 200
  THEN LET rewardPoints == IF reply.rewardPoint = NULL THEN 0 ELSE reply.rewardPoint
       IN  IF rewardPoints > 0
           THEN [threw |-> FALSE,
                 logs |-> << Log("success", "Sign-in successful", accountIndex) >>,
                 result |-> Outcome(TRUE, "+points", rewardPoints, FALSE)]
           ELSE [threw |-> FALSE,
                 logs |-> << Log("warn", "Already checked in today", accountIndex) >>,
                 result |-> Outcome(TRUE, "Already checked in", 0, TRUE)]
  ELSE [threw |-> FALSE,
        logs |-> << Log("error", "Sign-in failed", accountIndex) >>,
        result |-> Outcome(FALSE, "API Error", 0, FALSE)]

\* ------------------------------------------- check-in cycle (botLogic.js)
\* a fresh runCheckInCycle invocation: its loop index and its bookkeeping
NewCycle ==
  [pc |-> "start", i |-> 0, wake |-> 0, resultIdx |-> << >>,
   attempted |-> {}, gateRejected |-> {}, delays |-> 0]

NoCycle == [NewCycle EXCEPT !.pc = "none"]

LoopCond_OffByOne(i, n) == i < n - 1

\* the for loop's condition
LoopCond(i, n) == i < n

SkipsOnGate_Never(unusable) == FALSE

\* the branch taken on the gate's verdict
SkipsOnGate(unusable) == unusable

ProcessAccount_NoAwait(s, c, t) ==
  LET token == s.loadedTokens[c.i + 1]
      s1 == Emit(s, Log("info", "Processing Account", c.i))
      g == IsTokenExpiredOrInvalid(token, c.i, t)
      s2 == EmitAll(s1, g.logs)
      c1 == IF g.ret THEN [c EXCEPT !.gateRejected = @ \cup {c.i}] ELSE c
  IN  IF g.threw
      THEN [s |-> s2, c |-> [c EXCEPT !.pc = "aborted"], status |-> "aborted"]
      ELSE IF SkipsOnGate(g.ret)
      THEN [s |-> Emit(Emit(s2, Log("error", "Token is expired or invalid. Skipping", c.i)),
                       CheckinResult(c.i, FALSE, "Token Expired/Invalid", 0, FALSE)),
            c |-> [c1 EXCEPT !.pc = "delay", !.wake = t + DELAY_BETWEEN_ACCOUNTS_MS,
                             !.delays = @ + 1],
            status |-> "await"]
      ELSE IF c.i + 1 < Len(s.loadedTokens)
      THEN [s |-> Emit(Emit(Emit(s2, Log("info", "Attempting sign-in", c.i)),
                            Log("info", "Processing Account", c.i + 1)),
                       Log("info", "Attempting sign-in", c.i + 1)),
            c |-> [c1 EXCEPT !.pc = "sign", !.i = @ + 1],
            status |-> "await"]
      ELSE [s |-> Emit(s2, Log("info", "Attempting sign-in", c.i)),
            c |-> [c1 EXCEPT !.pc = "sign"],
            status |-> "await"]

\* the loop body for index c.i up to its first await
ProcessAccount(s, c, t) ==
  LET token == s.loadedTokens[c.i + 1]
      s1 == Emit(s, Log("info", "Processing Account", c.i))
      g == IsTokenExpiredOrInvalid(token, c.i, t)
      s2 == EmitAll(s1, g.logs)
      c1 == IF g.ret THEN [c EXCEPT !.gateRejected = @ \cup {c.i}] ELSE c
  IN  IF g.threw
      THEN [s |-> s2, c |-> [c EXCEPT !.pc = "aborted"], status |-> "aborted"]
      ELSE IF SkipsOnGate(g.ret)
      THEN [s |-> Emit(Emit(s2, Log("error", "Token is expired or invalid. Skipping", c.i)),
                       CheckinResult(c.i, FALSE, "Token Expired/Invalid", 0, FALSE)),
            c |-> [c1 EXCEPT !.pc = "delay", !.wake = t + DELAY_BETWEEN_ACCOUNTS_MS,
                             !.delays = @ + 1],
            status |-> "await"]
      ELSE [s |-> Emit(s2, Log("info", "Attempting sign-in", c.i)),
            c |-> [c1 EXCEPT !.pc = "sign"],
            status |-> "await"]

\* the loop from its condition at index c.i: the next body, or the return
LoopFrom(s, c, t) ==
  IF LoopCond(c.i, Len(s.loadedTokens))
  THEN ProcessAccount(s, c, t)
  ELSE [s |-> ScheduleNextRun(Emit(s, Log("info", "Check-in cycle finished", NoAccount)), t),
        c |-> [c EXCEPT !.pc = "done"],
        status |-> "done"]

RunCheckInCycle_NoRunning(s, t) ==
  LET s1 == UpdateBotStatus(s, "INITIALIZING")
      s2 == Emit(s1, Log("info", "Starting check-in cycle", NoAccount))
  IN  IF Len(s2.loadedTokens) = 0
      THEN [s |-> ScheduleNextRun(Emit(s2, Log("warn", "No tokens loaded", NoAccount)), t),
            c |-> [NewCycle EXCEPT !.pc = "done"],
            status |-> "done"]
      ELSE LoopFrom(Emit(s2, Log("info", "Processing account(s)", NoAccount)),
                    NewCycle, t)

\* runCheckInCycle from its entry to its first await (or its return)
RunCheckInCycle(s, t) ==
  LET s1 == UpdateBotStatus(s, "RUNNING")
      s2 == Emit(s1, Log("info", "Starting check-in cycle", NoAccount))
  IN  IF Len(s2.loadedTokens) = 0
      THEN [s |-> ScheduleNextRun(Emit(s2, Log("warn", "No tokens loaded", NoAccount)), t),
            c |-> [NewCycle EXCEPT !.pc = "done"],
            status |-> "done"]
      ELSE LoopFrom(Emit(s2, Log("info", "Processing account(s)", NoAccount)),
                    NewCycle, t)

\* runCheckInCycle from the resumption of `await performSign` on
OnSignReply(s, c, reply, t) ==
  LET p == PerformSign(s.loadedTokens[c.i + 1], c.i, reply)
      s1 == EmitAll(s, p.logs)
      s2 == Emit(s1, CheckinResult(c.i, p.result.success, p.result.message,
                                   p.result.reward, p.result.isDuplicate))
  IN  IF p.threw
      THEN [s |-> s1, c |-> [c EXCEPT !.pc = "aborted"], status |-> "aborted"]
      ELSE IF c.i < Len(s.loadedTokens) - 1
      THEN [s |-> Emit(s2, Log("info", "Waiting before next account", NoAccount)),
            c |-> [c EXCEPT !.pc = "delay", !.wake = t + DELAY_BETWEEN_ACCOUNTS_MS,
                            !.delays = @ + 1],
            status |-> "await"]
      ELSE LoopFrom(s2, [c EXCEPT !.i = @ + 1], t)

\* runCheckInCycle from the resumption of `await delay` on
OnDelayDone(s, c, t) == LoopFrom(s, [c EXCEPT !.i = @ + 1], t)

StartBotBody_NoRetry(s, file, t) ==
  LET s1 == Emit(s, Log("info", "Initializing Core-Sky Bot Logic", NoAccount))
      s2 == UpdateBotStatus(s1, "INITIALIZING")
      ld == LoadApiKeys(file)
      s3 == EmitAll([s2 EXCEPT !.loadedTokens = ld.keys], ld.logs)
      s4 == Emit(s3, StatusUpdate(Len(s3.loadedTokens), NULL, s3.botStatus, Snapshot(s3)))
  IN  IF Len(s4.loadedTokens) > 0
      THEN RunCheckInCycle(Emit(s4, Log("info", "Ready to start first check-in cycle", NoAccount)), t)
      ELSE [s |-> Emit(s4, Log("error", "No valid tokens loaded", NoAccount)),
            c |-> NoCycle,
            status |-> "none"]

\* startBot from its entry to its first await (or its return)
StartBotBody(s, file, t) ==
  LET s1 == Emit(s, Log("info", "Initializing Core-Sky Bot Logic", NoAccount))
      s2 == UpdateBotStatus(s1, "INITIALIZING")
      ld == LoadApiKeys(file)
      s3 == EmitAll([s2 EXCEPT !.loadedTokens = ld.keys], ld.logs)
      s4 == Emit(s3, StatusUpdate(Len(s3.loadedTokens), NULL, s3.botStatus, Snapshot(s3)))
  IN  IF Len(s4.loadedTokens) > 0
      THEN RunCheckInCycle(Emit(s4, Log("info", "Ready to start first check-in cycle", NoAccount)), t)
      ELSE [s |-> ScheduleNextRun(Emit(s4, Log("error", "No valid tokens loaded", NoAccount)), t),
            c |-> NoCycle,
            status |-> "none"]

\* ------------------------------------------------- dashboard (tui/ui.js)
TokenStatus(index, maskedToken, status) ==
  [type |-> "tokenStatus", index |-> index, maskedToken |-> maskedToken,
   status |-> status]

\* the dashboard's projection of the event stream as one value
Projection ==
  [currentStatus |-> currentStatus, loadedTokenDetails |-> loadedTokenDetails,
   statusUpdateInterval |-> statusUpdateInterval, intervals |-> intervals]

\* the projection when ui.js is loaded
FreshProjection ==
  [currentStatus |-> [tokensLoaded |-> 0, nextRunTimestamp |-> NULL,
                      botStatus |-> "INITIALIZING"],
   loadedTokenDetails |-> << >>,
   statusUpdateInterval |-> NULL,
   intervals |-> {}]

\* what rendering reads: currentStatus and loadedTokenDetails
SnapshotOf(p) ==
  [currentStatus |-> p.currentStatus, loadedTokenDetails |-> p.loadedTokenDetails]

UpdateStatusInfoBox_WritesBack(p, t) ==
  LET cs == p.currentStatus
      remainingMs == cs.nextRunTimestamp - t
      remainingSeconds == IF remainingMs \div 1000 > 0 THEN remainingMs \div 1000 ELSE 0
  IN  [p |-> IF cs.nextRunTimestamp # NULL /\ remainingSeconds = 0
             THEN [p EXCEPT !.currentStatus.nextRunTimestamp = NULL]
             ELSE p,
       content |->
         [botStatus |-> cs.botStatus,
          tokensLoaded |-> cs.tokensLoaded,
          tokens |-> [j \in DOMAIN p.loadedTokenDetails |->
                        << p.loadedTokenDetails[j].index + 1,
                           p.loadedTokenDetails[j].status >>],
          countdown |-> IF cs.nextRunTimestamp # NULL /\ cs.nextRunTimestamp # 0
                           /\ cs.botStatus = "WAITING"
                        THEN remainingSeconds
                        ELSE NULL]]

\* updateStatusInfoBox at time t: the projection it leaves and the content it
\* renders (the countdown in whole seconds, shown only while WAITING)
UpdateStatusInfoBox(p, t) ==
  LET cs == p.currentStatus
      remainingMs == cs.nextRunTimestamp - t
      remainingSeconds == IF remainingMs \div 1000 > 0 THEN remainingMs \div 1000 ELSE 0
  IN  [p |-> p,
       content |->
         [botStatus |-> cs.botStatus,
          tokensLoaded |-> cs.tokensLoaded,
          tokens |-> [j \in DOMAIN p.loadedTokenDetails |->
                        << p.loadedTokenDetails[j].index + 1,
                           p.loadedTokenDetails[j].status >>],
          countdown |-> IF cs.nextRunTimestamp # NULL /\ cs.nextRunTimestamp # 0
                           /\ cs.botStatus = "WAITING"
                        THEN remainingSeconds
                        ELSE NULL]]

\* setInterval: a new live interval, named by the least id not in use
SetInterval(ivs) == CHOOSE n \in 1..(Cardinality(ivs) + 1) : n \notin ivs

HandleStatusUpdate_NoGuard(p, statusData, t) ==
  LET payload == [tokensLoaded |-> statusData.tokensLoaded,
                  nextRunTimestamp |-> statusData.nextRunTimestamp,
                  botStatus |-> statusData.botStatus]
      p1 == UpdateStatusInfoBox([p EXCEPT !.currentStatus = payload], t).p
  IN  IF p1.currentStatus.botStatus # "WAITING" /\ p1.statusUpdateInterval # NULL
      THEN [p1 EXCEPT !.intervals = @ \ {p1.statusUpdateInterval},
                      !.statusUpdateInterval = NULL]
      ELSE IF p1.currentStatus.botStatus = "WAITING"
      THEN LET id == SetInterval(p1.intervals)
           IN  [p1 EXCEPT !.intervals = @ \cup {id}, !.statusUpdateInterval = id]
      ELSE p1

\* handleStatusUpdate
HandleStatusUpdate(p, statusData, t) ==
  LET payload == [tokensLoaded |-> statusData.tokensLoaded,
                  nextRunTimestamp |-> statusData.nextRunTimestamp,
                  botStatus |-> statusData.botStatus]
      p1 == UpdateStatusInfoBox([p EXCEPT !.currentStatus = payload], t).p
  IN  IF p1.currentStatus.botStatus # "WAITING" /\ p1.statusUpdateInterval # NULL
      THEN [p1 EXCEPT !.intervals = @ \ {p1.statusUpdateInterval},
                      !.statusUpdateInterval = NULL]
      ELSE IF p1.currentStatus.botStatus = "WAITING" /\ p1.statusUpdateInterval = NULL
      THEN LET id == SetInterval(p1.intervals)
           IN  [p1 EXCEPT !.intervals = @ \cup {id}, !.statusUpdateInterval = id]
      ELSE p1

\* findIndex / find: the first position of details whose index is ix, else 0
FindIndex(details, ix) ==
  IF \E j \in DOMAIN details : details[j].index = ix
  THEN CHOOSE j \in DOMAIN details :
         /\ details[j].index = ix
         /\ \A k \in 1..(j - 1) : details[k].index # ix
  ELSE 0

RECURSIVE SortByIndex(_)
\* sort((a, b) => a.index - b.index): stable, ascending by index
SortByIndex(details) ==
  IF details = << >> THEN << >>
  ELSE LET j == CHOOSE j \in DOMAIN details :
                  /\ \A k \in DOMAIN details : details[j].index <= details[k].index
                  /\ \A k \in 1..(j - 1) : details[k].index # details[j].index
       IN  << details[j] >> \o
           SortByIndex(SubSeq(details, 1, j - 1) \o SubSeq(details, j + 1, Len(details)))

\* handleTokenStatus
HandleTokenStatus(p, tokenData, t) ==
  LET detail == [index |-> tokenData.index, maskedToken |-> tokenData.maskedToken,
                 status |-> tokenData.status]
      existingIndex == FindIndex(p.loadedTokenDetails, tokenData.index)
      placed == IF existingIndex > 0
                THEN [p.loadedTokenDetails EXCEPT ![existingIndex] = detail]
                ELSE Append(p.loadedTokenDetails, detail)
  IN  UpdateStatusInfoBox([p EXCEPT !.loadedTokenDetails = SortByIndex(placed)], t).p

\* the status handleCheckinResult gives a credential for resultData
CheckinStatus(resultData, old) ==
  IF resultData.success /\ ~resultData.isDuplicate THEN "Checked"
  ELSE IF resultData.isDuplicate THEN "Done Today"
  ELSE IF ~resultData.success /\ resultData.message = "Token Expired/Invalid"
  THEN "Expired"
  ELSE IF ~resultData.success THEN "Failed"
  ELSE old

\* handleCheckinResult
HandleCheckinResult(p, resultData, t) ==
  LET j == FindIndex(p.loadedTokenDetails, resultData.index)
  IN  IF j > 0
      THEN UpdateStatusInfoBox(
             [p EXCEPT !.loadedTokenDetails[j].status =
                         CheckinStatus(resultData, @)], t).p
      ELSE p

\* emitter.emit(e) as the dashboard's handlers see it: log events go to the
\* log panes and leave the projection alone
HandleEvent(p, e, t) ==
  IF e.type = "statusUpdate" THEN HandleStatusUpdate(p, e, t)
  ELSE IF e.type = "tokenStatus" THEN HandleTokenStatus(p, e, t)
  ELSE IF e.type = "checkinResult" THEN HandleCheckinResult(p, e, t)
  ELSE p

RECURSIVE Deliver(_, _, _)
\* the projection after the events evs, published in order at time t
Deliver(p, evs, t) ==
  IF evs = << >> THEN p
  ELSE Deliver(HandleEvent(p, Head(evs), t), Tail(evs), t)

\* the names of the events the application publishes
EventNames == {"log", "statusUpdate", "tokenStatus", "checkinResult"}

\* the emitter when events.js is loaded: no handler for any event
NoListeners == [ty \in EventNames |-> << >>]

\* emitter.on(ty, handler)
On(ls, ty, handler) == [ls EXCEPT ![ty] = Append(@, handler)]

\* emitter.emit calls the handlers registered for the event's name and does
\* nothing when there is none: the events of evs that reach a handler
Heard(ls, evs) == SelectSeq(evs, LAMBDA e : ls[e.type] # << >>)

InitializeUI_LogOnly(ls) == On(ls, "log", "handleLogEvent")

\* initializeUI: the four subscriptions of the dashboard
InitializeUI(ls) ==
  On(On(On(On(ls, "log", "handleLogEvent"),
           "statusUpdate", "handleStatusUpdate"),
        "tokenStatus", "handleTokenStatus"),
     "checkinResult", "handleCheckinResult")

\* the exit-key handler's clearInterval(statusUpdateInterval)
ClearOnExit(p) ==
  IF p.statusUpdateInterval # NULL
  THEN [p EXCEPT !.intervals = @ \ {p.statusUpdateInterval}]
  ELSE p

\* the dashboard's variables after a callback that leaves projection p
CommitUi(p) ==
  /\ currentStatus' = p.currentStatus
  /\ loadedTokenDetails' = p.loadedTokenDetails
  /\ statusUpdateInterval' = p.statusUpdateInterval
  /\ intervals' = p.intervals

\* ---------------------------------------------------------------- actions
RemoveAt(seq, k) == SubSeq(seq, 1, k - 1) \o SubSeq(seq, k + 1, Len(seq))

RECURSIVE LastAnnounced(_, _)
\* nextRunTimestamp of the last WAITING statusUpdate of evs, else prev
LastAnnounced(evs, prev) ==
  IF evs = << >> THEN prev
  ELSE LET e == evs[Len(evs)]
       IN  IF e.type = "statusUpdate" /\ e.botStatus = "WAITING"
           THEN e.nextRunTimestamp
           ELSE LastAnnounced(SubSeq(evs, 1, Len(evs) - 1), prev)

\* the scheduler's variables after a callback that ends in s
CommitSched(s) ==
  /\ botStatus' = s.botStatus
  /\ nextRunTimestamp' = s.nextRunTimestamp
  /\ checkIntervalId' = s.checkIntervalId
  /\ loadedTokens' = s.loadedTokens
  /\ timers' = s.timers
  /\ timerSeq' = s.timerSeq
  /\ emitted' = s.emitted
  /\ statusTrace' = s.statusTrace
  /\ announced' = LastAnnounced(s.emitted, announced)

\* the variables after a callback that ends in s: the handlers of the
\* dashboard run inside emit, so the projection has folded the events of s
Commit(s) ==
  /\ CommitSched(s)
  /\ CommitUi(Deliver(Projection, Heard(listeners, s.emitted), now))
  /\ delivered' = Heard(listeners, s.emitted)

\* the accounts for which a callback's events announce a remote attempt
AttemptsIn(evs) ==
  { evs[j].account :
      j \in { k \in DOMAIN evs : evs[k].type = "log" /\ evs[k].msg = "Attempting sign-in" } }

\* a cycle's bookkeeping after a callback that published evs on its behalf
Book(c, evs) ==
  [c EXCEPT !.resultIdx = @ \o SelectSeqIdx(evs, 1),
            !.attempted = @ \cup AttemptsIn(evs)]

\* the suspended cycles after cycle k (0: a new one) ran up to outcome r
CommitCycle(r, k) ==
  /\ cycles' = IF r.status = "await"
               THEN IF k = 0 THEN Append(cycles, Book(r.c, r.s.emitted))
                             ELSE [cycles EXCEPT ![k] = Book(r.c, r.s.emitted)]
               ELSE IF k = 0 THEN cycles ELSE RemoveAt(cycles, k)
  /\ lastDone' = IF r.status = "done" THEN Book(r.c, r.s.emitted) ELSE lastDone
  /\ finished' = IF r.status = "done" THEN 1 ELSE 0
  /\ aborted' = (aborted \/ r.status = "aborted")

\* where initializeUI may raise: nowhere, while the screen and its components
\* are built (before the subscriptions), or in screen.key / screen.render
\* (after them)
UiFaults == {"none", "screen", "render"}

\* index.js, application start: initializeUI() and then setImmediate(startBot)
\* inside try; the catch ends the process with status 1.  Every other
\* callback of the process runs after this top-level code has returned.
Main ==
  /\ ~exited
  /\ immediate = "none"
  /\ \E fault \in UiFaults :
       LET ls == IF fault = "screen" THEN listeners ELSE InitializeUI(listeners)
           s == IF fault = "none"
                THEN Emit(Sched, Log("info", "TUI Initialized and listening for events",
                                     NoAccount))
                ELSE Sched
       IN  /\ listeners' = ls
           /\ CommitSched(s)
           /\ delivered' = Heard(ls, s.emitted)
           /\ CommitUi(IF fault = "none"
                       THEN UpdateStatusInfoBox(Deliver(Projection, Heard(ls, s.emitted), now),
                                                now).p
                       ELSE Projection)
           /\ immediate' = IF fault = "none" THEN "queued" ELSE "none"
           /\ exited' = (fault # "none")
           /\ exitCode' = IF fault = "none" THEN exitCode ELSE 1
  /\ lastOp' = "main"
  /\ UNCHANGED << cycles, now, started, cyclesStarted, lastDone, finished, aborted,
                  stopDuringCycle, stopRun, stopDuringDelay, lastReply, gate,
                  loader, bus, replica >>

\* index.js: setImmediate(() => startBot()), once per process
StartBot ==
  /\ ~exited
  /\ ~started
  /\ immediate = "queued"
  /\ immediate' = "ran"
  /\ \E file \in Files :
       LET r == StartBotBody(Sched, file, now)
       IN  /\ Commit(r.s)
           /\ CommitCycle(r, 0)
           /\ cyclesStarted' = IF r.status = "none" THEN cyclesStarted ELSE cyclesStarted + 1
  /\ started' = TRUE
  /\ lastOp' = "startBot"
  /\ stopRun' = 0
  /\ lastReply' = NoReply
  /\ UNCHANGED << now, stopDuringCycle, stopDuringDelay, exited, exitCode, gate,
                  loader, bus, replica, listeners >>

\* the callback of the timer armed by scheduleNextRun
TimerFire ==
  /\ ~exited
  /\ cyclesStarted < MaxCycles
  /\ \E tm \in timers :
       /\ now >= tm.due
       /\ LET r == RunCheckInCycle([Sched EXCEPT !.timers = FireTimer(@, tm.id)], now)
          IN  /\ Commit(r.s)
              /\ CommitCycle(r, 0)
  /\ cyclesStarted' = cyclesStarted + 1
  /\ lastOp' = "timerFire"
  /\ stopRun' = 0
  /\ lastReply' = NoReply
  /\ stopDuringDelay' = FALSE
  /\ UNCHANGED << now, started, stopDuringCycle, exited, exitCode, gate,
                  loader, bus, replica, listeners, immediate >>

\* axios.post settles and the cycle awaiting performSign resumes
SignReply ==
  /\ ~exited
  /\ \E k \in DOMAIN cycles, reply \in Replies :
       /\ cycles[k].pc = "sign"
       /\ lastReply' = reply
       /\ LET r == OnSignReply(Sched, cycles[k], reply, now)
          IN  /\ Commit(r.s)
              /\ CommitCycle(r, k)
  /\ lastOp' = "signReply"
  /\ stopRun' = 0
  /\ UNCHANGED << now, started, cyclesStarted, stopDuringCycle, stopDuringDelay,
                  exited, exitCode, gate, loader, bus, replica, listeners, immediate >>

\* the inter-account delay elapses and the cycle awaiting it resumes
DelayDone ==
  /\ ~exited
  /\ \E k \in DOMAIN cycles :
       /\ cycles[k].pc = "delay"
       /\ now >= cycles[k].wake
       /\ LET r == OnDelayDone(Sched, cycles[k], now)
          IN  /\ Commit(r.s)
              /\ CommitCycle(r, k)
  /\ lastOp' = "delayDone"
  /\ stopRun' = 0
  /\ lastReply' = NoReply
  /\ UNCHANGED << now, started, cyclesStarted, stopDuringCycle, stopDuringDelay,
                  exited, exitCode, gate, loader, bus, replica, listeners, immediate >>

\* stopBot, callable at any time between callbacks
StopBotCall ==
  /\ ~exited
  /\ immediate # "none"
  /\ Commit(StopBot(Sched))
  /\ lastOp' = "stopBot"
  /\ stopRun' = IF stopRun < 2 THEN stopRun + 1 ELSE 2
  /\ stopDuringCycle' = (stopDuringCycle \/ Len(cycles) > 0)
  /\ stopDuringDelay' =
       (stopDuringDelay \/ \E k \in DOMAIN cycles : cycles[k].pc = "delay")
  /\ finished' = 0
  /\ lastReply' = NoReply
  /\ UNCHANGED << cycles, now, started, cyclesStarted, lastDone, aborted,
                  exited, exitCode, gate, loader, bus, replica, listeners, immediate >>

\* instants at which a pending timer or delay is due
PendingDues ==
  { tm.due : tm \in timers } \cup
  { cycles[k].wake : k \in { j \in DOMAIN cycles : cycles[j].pc = "delay" } }

\* the clock advances to a due instant, or past it by one delay
Tick ==
  /\ ~exited
  /\ \E d \in PendingDues, late \in {0, DELAY_BETWEEN_ACCOUNTS_MS} :
       /\ d > now
       /\ now' = d + late
  /\ emitted' = << >>
  /\ delivered' = << >>
  /\ statusTrace' = << botStatus >>
  /\ lastOp' = "tick"
  /\ stopRun' = 0
  /\ finished' = 0
  /\ lastReply' = NoReply
  /\ UNCHANGED << botStatus, nextRunTimestamp, checkIntervalId, loadedTokens,
                  timers, timerSeq, cycles, started, cyclesStarted, lastDone,
                  aborted, stopDuringCycle, announced, stopDuringDelay, exited,
                  exitCode, gate, loader, bus, uiVars, listeners, immediate >>

\* ------------------------------------------- process exit (ui.js, index.js)
\* ui.js: the handler of the exit keys escape, q and Ctrl+C, up to process.exit
ExitKeyHandler(s) ==
  [s |-> StopBot(Emit(s, Log("info", "Exit requested. Cleaning up", NoAccount))),
   clears |-> TRUE, exited |-> TRUE, code |-> 0]

\* index.js: handleShutdown.  `require` is not defined in an ES module: the
\* call raises a ReferenceError that the handler swallows, and stopBot does
\* not run; in a build transpiled to CommonJS it resolves and stopBot runs.
HandleShutdown(s, requireWorks) ==
  [s |-> IF requireWorks THEN StopBot(s) ELSE s,
   clears |-> FALSE, exited |-> TRUE, code |-> 0]

\* index.js: the uncaughtException / unhandledRejection handlers; the
\* process.exit(1) after handleShutdown runs only if the process is still alive
FaultHandler(s, requireWorks) ==
  LET r == HandleShutdown(s, requireWorks)
  IN  IF r.exited THEN r ELSE [r EXCEPT !.exited = TRUE, !.code = 1]

\* the process ends with outcome r of handler op: the suspended cycles and
\* the record of the last one go with it
CommitExit(r, op) ==
  /\ CommitSched(r.s)
  /\ CommitUi(IF r.clears
              THEN ClearOnExit(Deliver(Projection, Heard(listeners, r.s.emitted), now))
              ELSE Deliver(Projection, Heard(listeners, r.s.emitted), now))
  /\ delivered' = Heard(listeners, r.s.emitted)
  /\ exited' = r.exited
  /\ exitCode' = r.code
  /\ lastOp' = op
  /\ finished' = 0
  /\ stopRun' = 0
  /\ lastReply' = NoReply
  /\ cycles' = << >>
  /\ lastDone' = NoCycle
  /\ UNCHANGED << now, started, cyclesStarted, aborted, stopDuringCycle,
                  stopDuringDelay, gate, loader, bus, replica, listeners, immediate >>

\* the user presses escape, q or Ctrl+C in the dashboard
ExitKey ==
  /\ ~exited
  /\ immediate # "none"
  /\ CommitExit(ExitKeyHandler(Sched), "exitKey")

\* the process receives SIGINT or SIGTERM
Signal ==
  /\ ~exited
  /\ immediate # "none"
  /\ \E requireWorks \in BOOLEAN :
       CommitExit(HandleShutdown(Sched, requireWorks), "signal")

\* an exception or a promise rejection reaches the process boundary
Fault ==
  /\ ~exited
  /\ immediate # "none"
  /\ \E requireWorks \in BOOLEAN :
       CommitExit(FaultHandler(Sched, requireWorks), "fault")

\* every variable of the program but the clock, as the modules' top levels
\* leave it
Constructed ==
  /\ botStatus = "IDLE"
  /\ nextRunTimestamp = NULL
  /\ checkIntervalId = NULL
  /\ loadedTokens = << >>
  /\ timers = {}
  /\ timerSeq = 0
  /\ cycles = << >>
  /\ emitted = << >>
  /\ statusTrace = << "IDLE" >>
  /\ started = FALSE
  /\ lastOp = "init"
  /\ cyclesStarted = 0
  /\ lastDone = NoCycle
  /\ finished = 0
  /\ aborted = FALSE
  /\ stopDuringCycle = FALSE
  /\ stopRun = 0
  /\ announced = NULL
  /\ stopDuringDelay = FALSE
  /\ lastReply = NoReply
  /\ exited = FALSE
  /\ exitCode = NULL
  /\ currentStatus = FreshProjection.currentStatus
  /\ loadedTokenDetails = FreshProjection.loadedTokenDetails
  /\ statusUpdateInterval = FreshProjection.statusUpdateInterval
  /\ intervals = FreshProjection.intervals
  /\ replica = FreshProjection
  /\ listeners = NoListeners
  /\ immediate = "none"
  /\ delivered = << >>

Init ==
  /\ Constructed
  /\ now = 0
  /\ gate = NoGate
  /\ loader = NoLoad
  /\ bus = NoEmit

Next ==
  \/ Main
  \/ StartBot
  \/ TimerFire
  \/ SignReply
  \/ DelayDone
  \/ StopBotCall
  \/ Tick
  \/ ExitKey
  \/ Signal
  \/ Fault

Spec == Init /\ [][Next]_vars

\* A SignReply, DelayDone or Tick step of Spec, told by its guard and by what
\* it leaves in lastOp (or now): within Spec these are exactly the steps of the
\* action, and their enabledness is the guard alone.
SignReplyStep ==
  /\ ~exited
  /\ \E k \in DOMAIN cycles : cycles[k].pc = "sign"
  /\ lastOp' = "signReply"

DelayDoneStep ==
  /\ ~exited
  /\ \E k \in DOMAIN cycles : cycles[k].pc = "delay" /\ now >= cycles[k].wake
  /\ lastOp' = "delayDone"

ClockStep ==
  /\ ~exited
  /\ \E d \in PendingDues, late \in {0, DELAY_BETWEEN_ACCOUNTS_MS} :
       d > now /\ now' = d + late

\* replies arrive (axios times out after 15 s), delays elapse, time passes
LiveSpec ==
  /\ Spec
  /\ WF_lastOp(SignReplyStep)
  /\ WF_lastOp(DelayDoneStep)
  /\ WF_now(ClockStep)

\* a TimerFire step of Spec, told like the steps above
TimerFireStep ==
  /\ ~exited
  /\ cyclesStarted < MaxCycles
  /\ \E tm \in timers : now >= tm.due
  /\ lastOp' = "timerFire"

\* and a timer that is due fires
RecurSpec ==
  /\ LiveSpec
  /\ WF_lastOp(TimerFireStep)

\* ------------------------------------------ the credential gate on its own
\* credentials as the gate can be handed them: the empty string, one whose
\* decoding raises, one decoded to null, one without a numeric exp, and one
\* with each exp claim up to GateMaxSec
GateTokens ==
  { [kind |-> k, exp |-> 0] : k \in {"blank", "throws", "malformed", "noexp"} }
    \cup { [kind |-> "jwt", exp |-> e] : e \in 0..GateMaxSec }

\* readings of Date.now(): each whole second up to GateMaxSec, and the
\* milliseconds next to it
GateTimes ==
  { ms \in { k * 1000 + d : k \in 0..GateMaxSec, d \in {-1, 0, 1} } : ms >= 0 }

\* a credential and an account index are about to be handed to the gate
GateInit ==
  /\ Constructed
  /\ now \in GateTimes
  /\ gate \in { [token |-> tk, index |-> ix, ret |-> FALSE, threw |-> FALSE] :
                   tk \in GateTokens, ix \in 0..(MaxLines - 1) }
  /\ loader = NoLoad
  /\ bus = NoEmit

\* isTokenExpiredOrInvalid(gate.token, gate.index) is called at time now
GateCall ==
  /\ lastOp = "init"
  /\ LET g == IsTokenExpiredOrInvalid(gate.token, gate.index, now)
     IN  /\ gate' = [gate EXCEPT !.ret = g.ret, !.threw = g.threw]
         /\ emitted' = g.logs
  /\ lastOp' = "gate"
  /\ UNCHANGED << schedVars, loader, bus, uiVars >>

GateNext == GateCall

GateSpec == GateInit /\ [][GateNext]_vars

\* --------------------------------------------- the shared emitter on its own
\* events.js exports a bare eventemitter3 instance: emit calls the listeners
\* of the event in registration order, in the caller's stack, with no handler
\* around them.  subs[k] tells whether listener k raises; the result is the
\* listeners called and whether emit raised into its caller.
EmitterEmit(subs) ==
  LET raising == { k \in DOMAIN subs : subs[k] }
      last == IF raising = {} THEN Len(subs)
              ELSE CHOOSE k \in raising : \A m \in raising : k <= m
  IN  [called |-> [k \in 1..last |-> k], threw |-> raising # {}]

\* updateBotStatus as a publisher: it emits statusUpdate and goes on to its
\* log line only if emit returns
Publish(subs) ==
  LET r == EmitterEmit(subs)
  IN  [called |-> r.called, propagated |-> r.threw, returned |-> ~r.threw]

\* listeners are registered, each one raising or not when called
BusInit ==
  /\ Constructed
  /\ now = 0
  /\ gate = NoGate
  /\ loader = NoLoad
  /\ bus \in { [subscribers |-> subs, called |-> << >>, propagated |-> FALSE,
                  returned |-> FALSE] :
                  subs \in UNION { [1..n -> BOOLEAN] : n \in 0..MaxSubscribers } }

\* a publisher emits one event to the registered listeners
BusEmit ==
  /\ lastOp = "init"
  /\ LET r == Publish(bus.subscribers)
     IN  bus' = [bus EXCEPT !.called = r.called, !.propagated = r.propagated,
                            !.returned = r.returned]
  /\ lastOp' = "emit"
  /\ UNCHANGED << schedVars, emitted, gate, loader, uiVars >>

BusNext == BusEmit

BusSpec == BusInit /\ [][BusNext]_vars

\* ------------------------------------------------- the loader on its own
\* a wallet.txt is about to be loaded
LoaderInit ==
  /\ Constructed
  /\ now = 0
  /\ gate = NoGate
  /\ bus = NoEmit
  /\ loader \in { [file |-> f, keys |-> << >>, raised |-> FALSE] : f \in Files }

\* loadApiKeys() is called
LoadCall ==
  /\ lastOp = "init"
  /\ LET r == LoadApiKeys(loader.file)
     IN  /\ loader' = [loader EXCEPT !.keys = r.keys, !.raised = r.threw]
         /\ emitted' = r.logs
  /\ lastOp' = "load"
  /\ UNCHANGED << schedVars, gate, bus, uiVars >>

LoaderNext == LoadCall

LoaderSpec == LoaderInit /\ [][LoaderNext]_vars

\* ------------------------------------------------------------- properties
Statuses == {"IDLE", "INITIALIZING", "RUNNING", "WAITING"}

Iota(n) == [j \in 1..n |-> j - 1]

\* the cycles on whose behalf the last callback may have published events
ActedCycles ==
  { cycles[k] : k \in DOMAIN cycles } \cup (IF finished = 1 THEN {lastDone} ELSE {})

\* positions of the statusUpdate events of the last callback
StatusUpdateIdx == { j \in DOMAIN emitted : emitted[j].type = "statusUpdate" }

WaitingIdx == { j \in StatusUpdateIdx : emitted[j].botStatus = "WAITING" }

CheckinIdx == { j \in DOMAIN emitted : emitted[j].type = "checkinResult" }

\* the changes of botStatus made by the last callback
Changes ==
  { << statusTrace[j], statusTrace[j + 1] >> :
      j \in { k \in 1..(Len(statusTrace) - 1) : statusTrace[k] # statusTrace[k + 1] } }

\* the last callback ran scheduleNextRun
EnteredWaiting == \E j \in 2..Len(statusTrace) : statusTrace[j] = "WAITING"

RECURSIVE Compress(_)
\* a sequence without its adjacent repetitions
Compress(q) ==
  IF Len(q) <= 1 THEN q
  ELSE IF q[1] = q[2] THEN Compress(Tail(q))
       ELSE << q[1] >> \o Compress(Tail(q))

\* C1: once stopBot has been called while a cycle was suspended, botStatus
\* stays IDLE and no timer is armed (startBot is not called again)
C1_StoppedStaysStopped ==
  stopDuringCycle => (botStatus = "IDLE" /\ timers = {})

\* C2: at most one runCheckInCycle invocation is in progress at any time
C2_AtMostOneCycle == Len(cycles) <= 1

C2_Witness == cyclesStarted >= 2 /\ Len(cycles) = 1 /\ lastOp = "timerFire"

\* C3: at most one scheduler timer is pending in every state, and exactly one
\* whenever the scheduler is WAITING, however often WAITING has been entered
C3_OneTimer ==
  /\ Cardinality(timers) <= 1
  /\ botStatus = "WAITING" => Cardinality(timers) = 1

C3_Witness == botStatus = "WAITING" /\ timerSeq >= 2 /\ Cardinality(timers) = 1

\* C4: every stopBot call leaves botStatus IDLE, nextRunTimestamp null and no
\* timer pending, whatever the state before (so also when called twice in a
\* row), and called in IDLE it changes no scheduler state
C4_StopContract ==
  [][lastOp' = "stopBot" =>
       /\ botStatus' = "IDLE"
       /\ nextRunTimestamp' = NULL
       /\ timers' = {}
       /\ botStatus = "IDLE" =>
            UNCHANGED << botStatus, nextRunTimestamp, checkIntervalId, timers,
                         loadedTokens, cycles >>]_vars

C4_Witness == stopRun = 2 /\ botStatus = "IDLE" /\ timerSeq >= 1

\* C5: a cycle over N credentials publishes exactly the checkinResult events
\* with indices 0..N-1 in that order, and then one WAITING statusUpdate (the
\* signal that the cycle is complete) and none before
C5_CycleEmitsAll ==
  /\ \A k \in DOMAIN cycles :
       cycles[k].resultIdx =
         Iota(IF cycles[k].pc = "delay" THEN cycles[k].i + 1 ELSE cycles[k].i)
  /\ finished = 1 =>
       /\ lastDone.resultIdx = Iota(Len(loadedTokens))
       /\ Cardinality(WaitingIdx) = 1
       /\ \A j \in CheckinIdx, w \in WaitingIdx : j < w
  /\ (finished = 0 /\ lastOp # "startBot") => WaitingIdx = {}

C5_Witness ==
  /\ finished = 1
  /\ Len(loadedTokens) = 2
  /\ lastDone.resultIdx = << 0, 1 >>
  /\ lastDone.gateRejected # {} /\ lastDone.attempted # {}

\* C6: for a credential the gate reports unusable the cycle makes no remote
\* attempt and publishes exactly one checkinResult, with success = false,
\* reward = 0 and isDuplicate = false
C6_GateSkips ==
  \A c \in ActedCycles :
    /\ c.gateRejected \cap c.attempted = {}
    /\ \A idx \in c.gateRejected :
         Cardinality({ j \in DOMAIN c.resultIdx : c.resultIdx[j] = idx }) = 1
    /\ \A j \in CheckinIdx :
         emitted[j].index \in c.gateRejected =>
           /\ emitted[j].success = FALSE
           /\ emitted[j].reward = 0
           /\ emitted[j].isDuplicate = FALSE

C6_Witness ==
  \E c \in ActedCycles, j \in CheckinIdx :
    /\ emitted[j].index \in c.gateRejected
    /\ c.i = emitted[j].index
    /\ c.pc = "delay"

\* C7: no cycle is ended by a per-credential failure, and every cycle in
\* progress eventually returns through scheduleNextRun (botStatus WAITING
\* with a timer armed), unless the process is terminated first
C7_CycleCompletes ==
  /\ [](~aborted)
  /\ (Len(cycles) > 0) ~>
       (exited \/ (finished = 1 /\ botStatus = "WAITING" /\ timers # {}))

C7_Witness ==
  /\ finished = 1 /\ Len(loadedTokens) = 2
  /\ lastDone.gateRejected # {} /\ lastDone.attempted # {}
  /\ \E j \in CheckinIdx : emitted[j].message = "Request Error"

SpecTransitions ==
  { << "IDLE", "INITIALIZING" >>, << "INITIALIZING", "RUNNING" >>,
    << "RUNNING", "WAITING" >>, << "WAITING", "RUNNING" >> }
    \cup { << x, "IDLE" >> : x \in Statuses }

C9_StatusUpdateCurrent ==
  /\ \A j \in StatusUpdateIdx :
       /\ emitted[j].botStatus = emitted[j].cur.botStatus
       /\ emitted[j].tokensLoaded = emitted[j].cur.tokensLoaded
       /\ emitted[j].nextRunTimestamp = emitted[j].cur.nextRunTimestamp
  /\ Compress(statusTrace) =
       Compress(<< statusTrace[1] >> \o
                [j \in 1..Cardinality(StatusUpdateIdx) |->
                   emitted[CHOOSE k \in StatusUpdateIdx :
                             Cardinality({ m \in StatusUpdateIdx : m <= k }) = j].botStatus])
  /\ StatusUpdateIdx # {} =>
       LET e == emitted[CHOOSE k \in StatusUpdateIdx : \A m \in StatusUpdateIdx : m <= k]
       IN  /\ e.botStatus = botStatus
           /\ e.tokensLoaded = Len(loadedTokens)
           /\ e.nextRunTimestamp = nextRunTimestamp

C9_Witness ==
  /\ lastOp = "startBot" /\ Len(loadedTokens) > 0
  /\ statusTrace = << "IDLE", "INITIALIZING", "RUNNING" >>
  /\ Cardinality(StatusUpdateIdx) = 3

\* C10: a callback that enters WAITING sets nextRunTimestamp to now + interval,
\* announces it and leaves one timer due at that instant; a timer callback
\* runs no earlier than the announced instant, sets RUNNING and begins a cycle
C10_TimerHonoursNextRun ==
  [][/\ EnteredWaiting' =>
          /\ nextRunTimestamp' = now' + CHECK_INTERVAL_MS
          /\ announced' = nextRunTimestamp'
          /\ timers' = { [id |-> checkIntervalId', due |-> now' + CHECK_INTERVAL_MS] }
     /\ lastOp' = "timerFire" =>
          /\ announced # NULL
          /\ now >= announced
          /\ statusTrace'[2] = "RUNNING"
          /\ cyclesStarted' = cyclesStarted + 1]_vars

C10_Witness ==
  /\ lastOp = "timerFire" /\ botStatus = "RUNNING"
  /\ announced # NULL /\ now = announced

\* C11: once stopBot has been called while the cycle is suspended in an
\* inter-account delay, no later callback starts a sign-in attempt or publishes
\* a checkinResult for that cycle
C11_StopAbortsDelay ==
  (stopDuringDelay /\ lastOp \in {"delayDone", "signReply"}) =>
    (CheckinIdx = {} /\ AttemptsIn(emitted) = {})

\* C12: a cycle over N >= 1 credentials that has returned took exactly N - 1
\* inter-account delays: one after every credential but the last, attempted
\* or skipped
C12_DelaysAllButLast ==
  (finished = 1 /\ Len(loadedTokens) >= 1) =>
    lastDone.delays = Len(loadedTokens) - 1

\* the reply that resumed performSign in the last callback, its checkinResult
\* events and its per-account log events
SignLogs ==
  { j \in DOMAIN emitted : emitted[j].type = "log" /\ emitted[j].account # NoAccount }

\* the decision table of the sign-in classifier: the outcome and the log level
\* for reply
DecisionTable(reply) ==
  IF reply.kind \in {"reject", "nodata"}
  THEN [success |-> FALSE, isDuplicate |-> FALSE, reward |-> 0, level |-> "error"]
  ELSE IF reply.code # 200
  THEN [success |-> FALSE, isDuplicate |-> FALSE, reward |-> 0, level |-> "error"]
  ELSE IF reply.rewardPoint > 0
  THEN [success |-> TRUE, isDuplicate |-> FALSE, reward |-> reply.rewardPoint,
        level |-> "success"]
  ELSE [success |-> TRUE, isDuplicate |-> TRUE, reward |-> 0, level |-> "warn"]

\* C13: the callback that resumes performSign with a reply publishes exactly
\* one checkinResult, whose success, isDuplicate and reward are those of the
\* decision table for that reply, and exactly one per-account log event, of
\* the table's level (error, success or warn)
C13_DecisionTable ==
  lastOp = "signReply" =>
    /\ Cardinality(CheckinIdx) = 1
    /\ Cardinality(SignLogs) = 1
    /\ \A j \in CheckinIdx :
         /\ emitted[j].success = DecisionTable(lastReply).success
         /\ emitted[j].isDuplicate = DecisionTable(lastReply).isDuplicate
         /\ emitted[j].reward = DecisionTable(lastReply).reward
    /\ \A j \in SignLogs : emitted[j].level = DecisionTable(lastReply).level

\* every row of the decision table has been taken: here the reward-free 200
C13_Witness ==
  /\ lastOp = "signReply"
  /\ lastReply.kind = "data" /\ lastReply.code = 200 /\ lastReply.rewardPoint = 0
  /\ \E j \in CheckinIdx : emitted[j].isDuplicate /\ emitted[j].success
  /\ \E j \in SignLogs : emitted[j].level = "warn"

\* C14: every Outcome of the classifier and every checkinResult published by
\* a cycle has reward 0 when it is a duplicate and reward 0 when it failed
C14_RewardZero ==
  /\ \A j \in CheckinIdx :
       /\ emitted[j].isDuplicate => emitted[j].reward = 0
       /\ ~emitted[j].success => emitted[j].reward = 0
  /\ \A reply \in Replies, k \in DOMAIN loadedTokens :
       LET o == PerformSign(loadedTokens[k], k - 1, reply).result
       IN  /\ o.isDuplicate => o.reward = 0
           /\ ~o.success => o.reward = 0

\* a failed attempt with a reward in the reply, and a gate skip, were published
C14_Witness ==
  /\ lastOp = "signReply"
  /\ lastReply.code = 500 /\ lastReply.rewardPoint = 10
  /\ \E j \in CheckinIdx : ~emitted[j].success /\ emitted[j].reward = 0
  /\ lastDone.gateRejected # {} /\ finished = 1

\* C15: for a credential with a numeric exp claim the gate reports expired
\* exactly when now >= exp * 1000: at the expiry instant and after it the
\* credential is expired, strictly before it the credential is usable
C15_BoundaryInclusive ==
  (lastOp = "gate" /\ gate.token.kind = "jwt") =>
    /\ now = gate.token.exp * 1000 => gate.ret
    /\ now < gate.token.exp * 1000 => ~gate.ret
    /\ now > gate.token.exp * 1000 => gate.ret

\* the gate was evaluated at the expiry instant of a credential
C15_Witness ==
  /\ lastOp = "gate" /\ gate.token.kind = "jwt"
  /\ gate.token.exp > 0 /\ now = gate.token.exp * 1000 /\ gate.ret

\* C16: the gate never raises; for an empty credential, one whose decoding
\* raises, one decoded to nothing and one without a numeric exp claim it
\* returns true and publishes at least one warn or error log event that names
\* the account index
C16_GateNeverThrows ==
  lastOp = "gate" =>
    /\ ~gate.threw
    /\ gate.token.kind \in {"blank", "throws", "malformed", "noexp"} =>
         /\ gate.ret
         /\ \E j \in DOMAIN emitted :
              /\ emitted[j].type = "log"
              /\ emitted[j].level \in {"warn", "error"}
              /\ emitted[j].account = gate.index

\* the gate was handed a credential whose decoding raises
C16_Witness ==
  /\ lastOp = "gate" /\ gate.token.kind = "throws" /\ gate.ret
  /\ \E j \in DOMAIN emitted : emitted[j].level = "error"

\* the last callback published a log event of level lv and, after it, a
\* WAITING statusUpdate for no credential that announces now + interval
LogThenWaiting(lv) ==
  \E j \in DOMAIN emitted, k \in WaitingIdx :
    /\ j < k
    /\ emitted[j].type = "log" /\ emitted[j].level = lv
    /\ emitted[k].tokensLoaded = 0
    /\ emitted[k].nextRunTimestamp = now + CHECK_INTERVAL_MS

\* the retry is scheduled: one timer, due one interval from now
RetryScheduled ==
  /\ botStatus = "WAITING"
  /\ nextRunTimestamp = now + CHECK_INTERVAL_MS
  /\ \E tm \in timers :
       timers = {tm} /\ tm.id = checkIntervalId /\ tm.due = now + CHECK_INTERVAL_MS

\* C17 as stated: startBot with no credential loaded publishes a warn-level
\* log event, then the WAITING statusUpdate, and schedules the retry
C17_WarnThenWaiting ==
  (lastOp = "startBot" /\ loadedTokens = << >>) =>
    (LogThenWaiting("warn") /\ RetryScheduled)

\* C17: startBot with no credential loaded publishes an error-level log event
\* ("No valid tokens loaded"), then a WAITING statusUpdate with tokensLoaded 0
\* that announces now + interval, and schedules the retry for that instant
\* without starting a cycle
C17_EmptySetRetries ==
  (lastOp = "startBot" /\ loadedTokens = << >>) =>
    /\ LogThenWaiting("error")
    /\ \E j \in DOMAIN emitted :
         emitted[j].type = "log" /\ emitted[j].msg = "No valid tokens loaded"
    /\ RetryScheduled
    /\ cycles = << >> /\ ~aborted

\* startBot found no wallet file, or one it could not read: no warn-level log
C17_Witness ==
  /\ lastOp = "startBot" /\ loadedTokens = << >>
  /\ \A j \in DOMAIN emitted : emitted[j].type = "log" => emitted[j].level # "warn"
  /\ LogThenWaiting("error")

LastStatusUpdateIs(st) ==
  /\ StatusUpdateIdx # {}
  /\ \A j \in StatusUpdateIdx :
       (\A k \in StatusUpdateIdx : k <= j) => emitted[j].botStatus = st

\* C19: when an uncaught exception or an unhandled rejection has ended the
\* process, botStatus is ERROR, the handler published an error-level log
\* event, and the exit status is not zero
C19_FaultToError ==
  (exited /\ lastOp = "fault") =>
    /\ botStatus = "ERROR"
    /\ \E j \in DOMAIN emitted : emitted[j].type = "log" /\ emitted[j].level = "error"
    /\ exitCode # 0

\* C20: when an exit key or SIGINT/SIGTERM has ended the process, no timer
\* is left armed, the handler's last statusUpdate reported IDLE, and the exit
\* status is 0
C20_CleanExit ==
  (exited /\ lastOp \in {"exitKey", "signal"}) =>
    /\ timers = {} /\ checkIntervalId = NULL
    /\ LastStatusUpdateIs("IDLE")
    /\ exitCode = 0

\* C21: when a listener raises during delivery, the fault stays inside the
\* bus: emit returns to the publisher, which runs on, and every registered
\* listener has been called
C21_FaultCaught ==
  lastOp = "emit" =>
    /\ ~bus.propagated
    /\ bus.returned
    /\ Len(bus.called) = Len(bus.subscribers)

\* C22: after a callback, the projection has folded its events: currentStatus
\* holds the botStatus, tokensLoaded and nextRunTimestamp of the callback's
\* last statusUpdate, and for every checkinResult of index i the status held
\* for credential i is the one that result gives
C22_ProjectionFolds ==
  /\ \A j \in StatusUpdateIdx :
       (\A k \in StatusUpdateIdx : k <= j) =>
         /\ currentStatus.botStatus = emitted[j].botStatus
         /\ currentStatus.tokensLoaded = emitted[j].tokensLoaded
         /\ currentStatus.nextRunTimestamp = emitted[j].nextRunTimestamp
  /\ \A j \in CheckinIdx :
       \E k \in DOMAIN loadedTokenDetails :
         /\ loadedTokenDetails[k].index = emitted[j].index
         /\ loadedTokenDetails[k].status = CheckinStatus(emitted[j], "")

\* ------------------------------------------------ the dashboard on its own
\* readings of Date.now() by the handlers and by the countdown's refresh
UiTimes == {0, CHECK_INTERVAL_MS}

\* the events the handlers are registered for, as events.js documents them
UiStatusEvents ==
  { StatusUpdate(1, nrt, st, [tokensLoaded |-> 1, nextRunTimestamp |-> nrt,
                              botStatus |-> st]) :
      nrt \in {NULL, CHECK_INTERVAL_MS}, st \in Statuses }

UiTokenEvents ==
  { TokenStatus(ix, "masked", st) :
      ix \in 0..(MaxDetails - 1), st \in {"Valid", "Expired"} }

UiCheckinEvents ==
  { CheckinResult(ix, o[1], o[2], o[3], o[4]) :
      ix \in 0..(MaxDetails - 1),
      o \in { << FALSE, "Token Expired/Invalid", 0, FALSE >>,
               << TRUE, "+points", 10, FALSE >>,
               << TRUE, "Already checked in", 0, TRUE >>,
               << FALSE, "API Error", 0, FALSE >> } }

\* what one callback of a publisher hands the dashboard: one event, or two
\* statusUpdate events in a row that carry a timestamp
UiBursts ==
  { << e >> : e \in UiStatusEvents \cup UiTokenEvents \cup UiCheckinEvents }
    \cup { << e1, e2 >> :
             e1 \in { e \in UiStatusEvents : e.nextRunTimestamp # NULL },
             e2 \in { e \in UiStatusEvents : e.nextRunTimestamp # NULL } }

UiInit ==
  /\ Constructed
  /\ now = 0
  /\ gate = NoGate
  /\ loader = NoLoad
  /\ bus = NoEmit

\* a publisher emits: the handlers fold the events into the projection at
\* time ta, and into the replica at another time tb
UiEmit ==
  /\ \E evs \in UiBursts, ta \in UiTimes, tb \in UiTimes :
       /\ ta # tb
       /\ CommitUi(Deliver(Projection, evs, ta))
       /\ replica' = Deliver(replica, evs, tb)
       /\ emitted' = evs
  /\ lastOp' = "uiEmit"
  /\ UNCHANGED << schedVars, gate, loader, bus >>

\* the countdown's interval fires, or initializeUI renders: the projection
\* is read at time t; the replica is not read
UiRender ==
  /\ \E t \in UiTimes : CommitUi(UpdateStatusInfoBox(Projection, t).p)
  /\ emitted' = << >>
  /\ lastOp' = "render"
  /\ UNCHANGED << schedVars, gate, loader, bus, replica, listeners, immediate >>

UiNext == UiEmit \/ UiRender

UiSpec == UiInit /\ [][UiNext]_vars

\* C23: the snapshot is a function of the event stream alone: a projection
\* and a replica fed the same events in the same order hold the same
\* currentStatus and loadedTokenDetails whatever the clock read when each
\* handled them and however often one of them was rendered; and rendering
\* leaves the snapshot as it was
C23_Deterministic ==
  /\ [](SnapshotOf(replica) = SnapshotOf(Projection))
  /\ [][lastOp' = "render" =>
          /\ currentStatus' = currentStatus
          /\ loadedTokenDetails' = loadedTokenDetails]_vars

\* two credentials are on display, one updated by a result, and the
\* projection has just been rendered while it counts down
C23_Witness ==
  /\ lastOp = "render"
  /\ Len(loadedTokenDetails) = 2
  /\ \E k \in DOMAIN loadedTokenDetails : loadedTokenDetails[k].status = "Failed"
  /\ currentStatus.botStatus = "WAITING" /\ currentStatus.nextRunTimestamp # NULL
  /\ SnapshotOf(replica) = SnapshotOf(Projection)

\* C30: after any statusUpdate events, the countdown's interval exists
\* exactly when the last one reported WAITING, and the runtime holds at most
\* one such interval, the one statusUpdateInterval names
C30_OneInterval ==
  /\ (statusUpdateInterval # NULL) <=> (currentStatus.botStatus = "WAITING")
  /\ Cardinality(intervals) <= 1
  /\ intervals = IF statusUpdateInterval # NULL THEN {statusUpdateInterval} ELSE {}

\* two WAITING events in a row were handled
C30_Witness ==
  /\ lastOp = "uiEmit" /\ Len(emitted) = 2
  /\ emitted[1].botStatus = "WAITING" /\ emitted[2].botStatus = "WAITING"
  /\ Cardinality(intervals) = 1

\* C24: startBot with a credential loaded enters RUNNING without passing
\* through WAITING; from then on, with credentials loaded, every WAITING is
\* followed by RUNNING (up to the MaxCycles cycles of a run) and every RUNNING
\* by WAITING, unless stopBot is called or the process ends first
C24_CyclesRecur ==
  /\ []((lastOp = "startBot" /\ Len(loadedTokens) > 0) =>
         /\ botStatus = "RUNNING"
         /\ \A j \in DOMAIN statusTrace : statusTrace[j] # "WAITING")
  /\ (botStatus = "WAITING" /\ Len(loadedTokens) > 0 /\ cyclesStarted < MaxCycles) ~>
       (botStatus = "RUNNING" \/ lastOp = "stopBot" \/ exited)
  /\ (botStatus = "RUNNING") ~>
       (botStatus = "WAITING" \/ lastOp = "stopBot" \/ exited)

\* the timer has started a third cycle over loaded credentials, and stopBot
\* was never called during one
C24_Witness ==
  /\ lastOp = "timerFire" /\ cyclesStarted = 3 /\ botStatus = "RUNNING"
  /\ Len(loadedTokens) > 0 /\ ~stopDuringCycle /\ ~exited

\* C25: a statusUpdate carries a nextRunTimestamp exactly when it is the
\* WAITING update by which scheduleNextRun schedules a run; every other one,
\* the RUNNING update of a cycle started by the timer included, carries null
C25_NullUnlessScheduled ==
  \A j \in StatusUpdateIdx :
    /\ emitted[j].botStatus # "WAITING" => emitted[j].nextRunTimestamp = NULL
    /\ emitted[j].botStatus = "WAITING" => emitted[j].nextRunTimestamp # NULL

\* positions of the lines of the loaded file that are neither empty nor a
\* comment
UsablePos ==
  { j \in DOMAIN loader.file.lines :
      loader.file.lines[j].kind \notin {"blank", "comment"} }

\* C26: loadApiKeys never raises; for a missing or unreadable file it returns
\* no key and publishes exactly one log event, of level error; for a file
\* without usable line, no key and one warn log event; otherwise the usable
\* lines in file order and one info log event
C26_LoaderTotal ==
  lastOp = "load" =>
    /\ ~loader.raised
    /\ Len(emitted) = 1 /\ emitted[1].type = "log"
    /\ loader.file.status \in {"missing", "unreadable"} =>
         loader.keys = << >> /\ emitted[1].level = "error"
    /\ (loader.file.status = "ok" /\ UsablePos = {}) =>
         loader.keys = << >> /\ emitted[1].level = "warn"
    /\ (loader.file.status = "ok" /\ UsablePos # {}) =>
         /\ emitted[1].level = "info"
         /\ Len(loader.keys) = Cardinality(UsablePos)
         /\ \A k \in DOMAIN loader.keys :
              loader.keys[k] =
                loader.file.lines[CHOOSE j \in UsablePos :
                                    Cardinality({ m \in UsablePos : m <= j }) = k]

\* a file with a comment before its only key was loaded
C26_Witness ==
  /\ lastOp = "load" /\ loader.file.status = "ok"
  /\ Len(loader.file.lines) = 2 /\ loader.file.lines[1].kind = "comment"
  /\ Len(loader.keys) = 1 /\ loader.keys[1] = loader.file.lines[2]

\* positions in the last callback's events at which the cycle began a
\* credential (its "Processing Account" line) or a remote attempt
BeginIdx ==
  { j \in DOMAIN emitted :
      /\ emitted[j].type = "log"
      /\ emitted[j].msg \in {"Processing Account", "Attempting sign-in"} }

\* C27: at most one remote attempt is in flight, and a cycle begins the gate
\* check and the attempt of credential a only when it has published the
\* checkinResult of each of the credentials 0..a-1, and of no other
C27_Serial ==
  /\ Cardinality({ k \in DOMAIN cycles : cycles[k].pc = "sign" }) <= 1
  /\ \A c \in ActedCycles :
       /\ c.resultIdx = Iota(Len(c.resultIdx))
       /\ \A j \in BeginIdx :
            emitted[j].account =
              Len(c.resultIdx) - Cardinality({ m \in CheckinIdx : m > j })
  /\ ActedCycles = {} => BeginIdx = {}

\* the second credential's attempt began in the callback after the delay
\* that followed the first one's result
C27_Witness ==
  /\ lastOp = "delayDone" /\ Len(cycles) = 1
  /\ cycles[1].pc = "sign" /\ cycles[1].i = 1
  /\ cycles[1].attempted = {0, 1} /\ cycles[1].resultIdx = << 0 >>

\* C28: every checkinResult with success = FALSE comes after an error-level
\* log line for the same account, published while that credential was being
\* processed (no other credential's result lies between the two)
C28_FailureLogged ==
  \A j \in CheckinIdx :
    ~emitted[j].success =>
      \E k \in 1..(j - 1) :
        /\ emitted[k].type = "log" /\ emitted[k].level = "error"
        /\ emitted[k].account = emitted[j].index
        /\ \A m \in CheckinIdx : ~(k < m /\ m < j)

\* a remote answer with a code other than 200 has just been reported as a failure
C28_Witness ==
  /\ lastOp = "signReply" /\ lastReply.kind = "data" /\ lastReply.code # 200
  /\ \E j \in CheckinIdx : ~emitted[j].success /\ emitted[j].message = "API Error"

\* C29: between callbacks a scheduler timer is pending exactly when the
\* status is WAITING, and the status IDLE goes with a null nextRunTimestamp
C29_TimerIffWaiting ==
  /\ (timers # {}) <=> (botStatus = "WAITING")
  /\ botStatus = "IDLE" => nextRunTimestamp = NULL

\* stopBot has just run while the scheduler was waiting for its timer
C29_Witness ==
  /\ lastOp = "stopBot" /\ statusTrace[1] = "WAITING"
  /\ botStatus = "IDLE" /\ timers = {} /\ nextRunTimestamp = NULL
  /\ cyclesStarted >= 1 /\ Len(loadedTokens) > 0

\* the statusUpdate and checkinResult events of a sequence of events
Orchestration(evs) ==
  SelectSeq(evs, LAMBDA e : e.type \in {"statusUpdate", "checkinResult"})

\* C31: the dashboard's four subscriptions are in place when startBot runs;
\* no statusUpdate or checkinResult event is published while its name has no
\* handler, the dashboard's handlers run on every one of them in the order
\* of publication, and the projection holds the last statusUpdate's payload
C31_SubscribedBeforeStart ==
  /\ [][lastOp' = "startBot" => \A ty \in EventNames : listeners[ty] # << >>]_vars
  /\ [](/\ \A j \in DOMAIN emitted :
             emitted[j].type \in {"statusUpdate", "checkinResult"} =>
               listeners[emitted[j].type] # << >>
        /\ Orchestration(delivered) = Orchestration(emitted)
        /\ \A j \in StatusUpdateIdx :
             (\A m \in StatusUpdateIdx : m <= j) =>
               /\ currentStatus.botStatus = emitted[j].botStatus
               /\ currentStatus.tokensLoaded = emitted[j].tokensLoaded
               /\ currentStatus.nextRunTimestamp = emitted[j].nextRunTimestamp)

\* a sign reply's callback published a checkinResult and a statusUpdate, and
\* the dashboard's handlers ran on both
C31_Witness ==
  /\ lastOp = "signReply"
  /\ \E j \in DOMAIN delivered : delivered[j].type = "checkinResult"
  /\ \E j \in DOMAIN delivered : delivered[j].type = "statusUpdate"
  /\ currentStatus.botStatus = "WAITING"

====
